---- MODULE Spec2Model ----
(***************************************************************************)
(* Random-track discovery of hey_siwi: PlayRandomSongAction of             *)
(* src/hey_siwi/spotify.py.  One run of execute() is modelled step by      *)
(* step: every network call (search, next-page fetch, start_playback) is   *)
(* one step, so that the number and the order of the calls can be stated.  *)
(*                                                                         *)
(* Strings are sequences of one-character strings.  A track id is the      *)
(* tuple <<attempt, page, index>> naming the item at position index of     *)
(* page number page of the result set served to attempt number attempt;    *)
(* None is the empty tuple.  random.* is a nondeterministic choice.        *)
(***************************************************************************)
EXTENDS Integers, Sequences, FiniteSets, TLC

\* ---------------------------------------------------------------- bounds
MaxRetry == 2      \* retry_count ranges over 0..MaxRetry
MaxPages == 2      \* a result set has 1..MaxPages pages
MaxItems == 2      \* a page has 0..MaxItems items
MaxFileLen == 3    \* a catalog file has 0..MaxFileLen characters
MaxDraws == 2      \* successive _get_genre calls on one catalog

\* --------------------------------------------------------------- strings
NL == "\n"
Chars == {"a", " ", NL}
Whitespace == {" ", NL}

None == <<>>
IndexError == <<"IndexError">>

RECURSIVE SplitLines(_, _)
\* list(open(genre_file, "r")): the lines of the file, each with its
\* terminating newline; a last line without newline is kept when non-empty.
SplitLines(s, cur) ==
    IF s = <<>> THEN (IF cur = <<>> THEN <<>> ELSE <<cur>>)
    ELSE IF Head(s) = NL
         THEN <<Append(cur, NL)>> \o SplitLines(Tail(s), <<>>)
         ELSE SplitLines(Tail(s), Append(cur, Head(s)))

RECURSIVE LStrip(_, _)
LStrip(s, cs) ==
    IF s # <<>> /\ Head(s) \in cs THEN LStrip(Tail(s), cs) ELSE s

RECURSIVE RStrip(_, _)
RStrip(s, cs) ==
    IF s # <<>> /\ s[Len(s)] \in cs
    THEN RStrip(SubSeq(s, 1, Len(s) - 1), cs) ELSE s

\* str.strip(chars)
Strip(s, cs) == RStrip(LStrip(s, cs), cs)

\* A faulty variant of StripLine: .strip() without argument.
StripAllWhitespace(line) == Strip(line, Whitespace)

\* .strip("\n") of line 212
StripLine(line) == Strip(line, {NL})

\* _get_genre: the values random.choice(genre_list).strip("\n") can return;
\* random.choice of an empty list raises IndexError.
get_genre(cat) ==
    LET genre_list == SplitLines(cat, <<>>)
    IN  IF genre_list = <<>> THEN {IndexError}
        ELSE {StripLine(genre_list[k]) : k \in 1..Len(genre_list)}

\* ------------------------------------------------------- the search server
RECURSIVE SeqsUpTo(_, _)
SeqsUpTo(S, n) ==
    IF n = 0 THEN {<<>>}
    ELSE LET shorter == SeqsUpTo(S, n - 1)
         IN  shorter \cup {Append(s, x) : s \in {t \in shorter : Len(t) = n - 1}, x \in S}

\* The catalog files of the genre check.
Files == SeqsUpTo(Chars, MaxFileLen)

\* A result set: the item count of each of its pages, in order.
Chains == SeqsUpTo(0..MaxItems, MaxPages) \ {<<>>}

\* The id of the item at position idx of page p served to attempt att.
TrackId(att, p, idx) == <<att, p, idx>>

\* The response for page p of result set ch: data["tracks"] with its items,
\* its next reference (0 is null) and its offset (the page's number).  A
\* page past the end of the result set is empty.
Page(att, ch, p) ==
    [items  |-> [k \in 1..(IF p <= Len(ch) THEN ch[p] ELSE 0) |-> TrackId(att, p, k - 1)],
     next   |-> IF p < Len(ch) THEN p + 1 ELSE 0,
     offset |-> p]

NoPage == [items |-> <<>>, next |-> 0, offset |-> 0]

\* ------------------------------------------------------------------ state
VARIABLES
    pc,             \* position in execute / _get_random
    retry_count,    \* self._retry_count
    catalog,        \* content of static/genres.txt
    genre,          \* the last genre drawn
    site,           \* which call of _get_random is running: "pre" (line 249) or "loop" (line 251)
    i,              \* iterations of the for loop completed
    song_id,        \* execute's song_id
    chain,          \* the result set the server holds for the current query
    data,           \* _get_random's data: the page in hand
    samples,        \* _get_random's samples
    attempt,        \* number of _get_random calls started
    fetches,        \* next-page fetches issued by the current attempt
    genreDraws,     \* number of _get_genre calls
    searchCalls,    \* number of spotify_client.search calls
    nextCalls,      \* number of requests.get calls
    playCalls,      \* number of start_playback calls
    played,         \* the track id handed to start_playback
    outcome,        \* how the run ended
    returned,       \* the track ids _get_random has returned so far
    failedCall,     \* some call raised
    allOneByOne,    \* every search so far returned one page holding one item
    allFirstEmpty   \* every search so far returned an empty first page

vars == <<pc, retry_count, catalog, genre, site, i, song_id, chain, data,
          samples, attempt, fetches, genreDraws, searchCalls, nextCalls,
          playCalls, played, outcome, returned, failedCall, allOneByOne,
          allFirstEmpty>>

\* The catalog of the runs of execute: two genre lines.
DefaultCatalog == <<"a", NL, "a", "a", NL>>

InitCommon ==
    /\ genre = None
    /\ site = "pre"
    /\ i = 0
    /\ song_id = None
    /\ chain = <<>>
    /\ data = NoPage
    /\ samples = <<>>
    /\ attempt = 0
    /\ fetches = 0
    /\ genreDraws = 0
    /\ searchCalls = 0
    /\ nextCalls = 0
    /\ playCalls = 0
    /\ played = None
    /\ outcome = "running"
    /\ returned = {}
    /\ failedCall = FALSE
    /\ allOneByOne = TRUE
    /\ allFirstEmpty = TRUE

Init ==
    /\ pc = "start"
    /\ retry_count \in 0..MaxRetry
    /\ catalog = DefaultCatalog
    /\ InitCommon

\* --------------------------------------------------- execute's control flow
\* A faulty variant of Truthy: the result is not tested.
AlwaysTruthy(v) == TRUE

\* `if song_id:` / `if not song_id:` of lines 252 and 254
Truthy(v) == v # None

\* range(self._retry_count) has an element after `done` iterations
LoopGoesOn(done, rc) == done < rc

ctl == <<pc, site, i, song_id, returned, failedCall, outcome>>

\* _get_random returns v to its caller in execute: line 249 assigns it and
\* enters the for loop; line 251 assigns it and line 252 breaks on a track id.
Return(v) ==
    /\ song_id' = v
    /\ returned' = IF v = None THEN returned ELSE returned \cup {v}
    /\ site' = "loop"
    /\ IF site = "pre"
       THEN /\ i' = i
            /\ pc' = IF LoopGoesOn(i, retry_count) THEN "call" ELSE "after"
       ELSE IF Truthy(v)
            THEN /\ i' = i
                 /\ pc' = "after"
            ELSE /\ i' = i + 1
                 /\ pc' = IF LoopGoesOn(i + 1, retry_count) THEN "call" ELSE "after"
    /\ UNCHANGED <<failedCall, outcome>>

\* A faulty variant of PropagateError: the failed call is caught and the attempt
\* counts as one without candidate.
SwallowError ==
    /\ failedCall' = TRUE
    /\ song_id' = None
    /\ site' = "loop"
    /\ i' = IF site = "pre" THEN i ELSE i + 1
    /\ pc' = IF LoopGoesOn(i', retry_count) THEN "call" ELSE "after"
    /\ UNCHANGED <<returned, outcome>>

\* A call raised inside _get_random: neither _get_random nor execute has a
\* try block around it, so the exception leaves execute.
PropagateError ==
    /\ failedCall' = TRUE
    /\ pc' = "raised"
    /\ outcome' = "raised"
    /\ UNCHANGED <<site, i, song_id, returned>>

\* A faulty variant of AddSample: the sample replaces the reservoir.
ReplaceSample(s, id) == <<id>>

\* samples.append(...)  (line 229)
AddSample(s, id) == Append(s, id)

\* A faulty variant of HasNext: the loop goes on whatever the next reference is.
AlwaysNext(page) == TRUE

\* A faulty variant of HasNext: the next reference is never followed.
NeverNext(page) == FALSE

\* data["tracks"]["next"] is not null  (line 231)
HasNext(page) == page.next # 0

\* random.randint(a, b)
RandInt(a, b) == a..b

\* random.choice(samples)
Choice(s) == {s[k] : k \in 1..Len(s)}

\* execute, lines 241-246: the base class checks the config and builds the
\* client, the spinner starts.
Execute ==
    /\ pc = "start"
    /\ \E configOk \in BOOLEAN :
         IF configOk
         THEN /\ pc' = "call"
              /\ outcome' = outcome
         ELSE /\ pc' = "raised"
              /\ outcome' = "badconfig"
    /\ UNCHANGED <<retry_count, catalog, genre, site, i, song_id, chain, data,
                   samples, attempt, fetches, genreDraws, searchCalls,
                   nextCalls, playCalls, played, returned, failedCall,
                   allOneByOne, allFirstEmpty>>

\* _get_random, lines 216-222: draw a genre, issue the search, create the
\* reservoir.  The search raises, returns nothing, or returns the first
\* page of some result set.
Search ==
    /\ pc = "call"
    /\ attempt' = attempt + 1
    /\ genreDraws' = genreDraws + 1
    /\ \E g \in get_genre(catalog) :
         IF g = IndexError
         THEN /\ PropagateError
              /\ UNCHANGED <<genre, searchCalls, chain, data, samples, fetches,
                             allOneByOne, allFirstEmpty>>
         ELSE /\ genre' = g
              /\ searchCalls' = searchCalls + 1
              /\ \E r \in Chains \cup {<<>>} : \E raises \in BOOLEAN :
                   IF raises \/ r = <<>>
                   THEN /\ PropagateError
                        /\ UNCHANGED <<chain, data, samples, fetches,
                                       allOneByOne, allFirstEmpty>>
                   ELSE /\ chain' = r
                        /\ data' = Page(attempt', r, 1)
                        /\ samples' = <<>>
                        /\ fetches' = 0
                        /\ allOneByOne' = (allOneByOne /\ r = <<1>>)
                        /\ allFirstEmpty' = (allFirstEmpty /\ r[1] = 0)
                        /\ pc' = "page"
                        /\ UNCHANGED <<site, i, song_id, returned, failedCall, outcome>>
    /\ UNCHANGED <<retry_count, catalog, nextCalls, playCalls, played>>

\* _get_random, lines 224-239: one turn of the while loop on the page in
\* hand, up to the return or to the arrival of the next page.
SamplePage ==
    /\ pc = "page"
    /\ LET num_items == Len(data.items)
       IN  IF num_items = 0
           THEN /\ Return(None)
                /\ UNCHANGED <<samples, data, nextCalls, fetches>>
           ELSE \E to_pick \in RandInt(0, num_items - 1) :
                  /\ samples' = AddSample(samples, data.items[to_pick + 1])
                  /\ IF ~HasNext(data)
                     THEN /\ \E c \in Choice(samples') : Return(c)
                          /\ UNCHANGED <<data, nextCalls, fetches>>
                     ELSE /\ nextCalls' = nextCalls + 1
                          /\ fetches' = fetches + 1
                          /\ \E ok \in BOOLEAN :
                               IF ok
                               THEN /\ data' = Page(attempt, chain, data.offset + 1)
                                    /\ UNCHANGED ctl
                               ELSE /\ PropagateError
                                    /\ UNCHANGED data
    /\ UNCHANGED <<retry_count, catalog, genre, chain, attempt, genreDraws,
                   searchCalls, playCalls, played, allOneByOne, allFirstEmpty>>

\* execute, lines 254-259
AfterLoop ==
    /\ pc = "after"
    /\ IF ~Truthy(song_id)
       THEN /\ pc' = "failed"
            /\ outcome' = "unable"
       ELSE /\ pc' = "play"
            /\ outcome' = "found"
    /\ UNCHANGED <<retry_count, catalog, genre, site, i, song_id, chain, data,
                   samples, attempt, fetches, genreDraws, searchCalls,
                   nextCalls, playCalls, played, returned, failedCall,
                   allOneByOne, allFirstEmpty>>

\* execute, lines 261-262, and PlaySongAction.execute: start_playback on
\* spotify:track:<song_id>; a SpotifyException is handled, not raised.
PlaySong ==
    /\ pc = "play"
    /\ played' = song_id
    /\ playCalls' = playCalls + 1
    /\ \E ok \in BOOLEAN : outcome' = IF ok THEN "playing" ELSE "handled"
    /\ pc' = "done"
    /\ UNCHANGED <<retry_count, catalog, genre, site, i, song_id, chain, data,
                   samples, attempt, fetches, genreDraws, searchCalls,
                   nextCalls, returned, failedCall, allOneByOne, allFirstEmpty>>

Next == Execute \/ Search \/ SamplePage \/ AfterLoop \/ PlaySong

Spec == Init /\ [][Next]_vars

\* ------------------------------------------- _get_genre on its own
InitGenre ==
    /\ pc = "genre"
    /\ retry_count = 0
    /\ catalog \in Files
    /\ InitCommon

\* One call of _get_genre (lines 208-213).
GetGenre ==
    /\ pc = "genre"
    /\ genreDraws < MaxDraws
    /\ genreDraws' = genreDraws + 1
    /\ \E g \in get_genre(catalog) :
         IF g = IndexError
         THEN /\ pc' = "raised"
              /\ outcome' = "raised"
              /\ genre' = genre
         ELSE /\ genre' = g
              /\ UNCHANGED <<pc, outcome>>
    /\ UNCHANGED <<retry_count, catalog, site, i, song_id, chain, data,
                   samples, attempt, fetches, searchCalls, nextCalls,
                   playCalls, played, returned, failedCall, allOneByOne,
                   allFirstEmpty>>

NextGenre == GetGenre

SpecGenre == InitGenre /\ [][NextGenre]_vars

\* ================================================================ claims
Range(s) == {s[k] : k \in 1..Len(s)}

\* The last _get_random call has returned to execute: song_id holds what it
\* returned, and chain, data and samples are as it left them.
AttemptReturned == attempt >= 1 /\ pc \in {"call", "after", "failed", "play", "done"}

\* The run is past the retry loop and no call raised.
LoopOver == pc \in {"after", "failed", "play", "done"}

\* C1 (P1): when every search returns one page holding one candidate, a run
\* with retry_count >= 1 issues exactly one search query and ends with the
\* candidate of attempt 1.
P1_OneQuery ==
    (LoopOver /\ retry_count >= 1 /\ allOneByOne)
        => (searchCalls = 1 /\ attempt = 1 /\ song_id = TrackId(1, 1, 0))

\* C2 (P2): when the first page of every attempt is empty, a run with
\* retry_count = n >= 1 gives up after exactly n genre draws and exactly n
\* search calls.
P2_Exhaustion ==
    (pc = "failed" /\ retry_count >= 1 /\ allFirstEmpty)
        => (genreDraws = retry_count /\ searchCalls = retry_count)

\* C3: once some attempt has returned a track id, the run issues no further
\* genre draw, search query or next-page fetch.
StopsAtFirstCandidate ==
    [][returned # {} => (/\ genreDraws' = genreDraws
                         /\ searchCalls' = searchCalls
                         /\ nextCalls' = nextCalls)]_vars

\* C4: a run in which no attempt returned a candidate ends in the
\* "Unable to find a song!" failure without any start_playback call, and
\* start_playback is only ever called after a candidate was selected, with
\* that candidate.
ExhaustedMeansFailure ==
    /\ (pc \in {"failed", "done"} /\ returned = {}) => (pc = "failed" /\ outcome = "unable")
    /\ pc = "failed" => (outcome = "unable" /\ playCalls = 0)
    /\ returned = {} => playCalls = 0
    /\ playCalls > 0 => (played # None /\ played = song_id /\ played \in returned)

ExhaustedWitness ==
    /\ pc = "failed"
    /\ outcome = "unable"
    /\ retry_count >= 1
    /\ attempt = retry_count + 1
    /\ returned = {}
    /\ playCalls = 0

\* C5: an attempt over a result set of P pages issues between 1 and P
\* network calls, the pages being fetched one after the other, each once;
\* when the first page is empty the attempt issues the search alone and
\* yields no candidate.
PerAttemptCalls ==
    /\ (attempt >= 1 /\ chain # <<>>) =>
          /\ fetches >= 0
          /\ 1 + fetches <= Len(chain)
          /\ pc # "raised" => data.offset = 1 + fetches
    /\ (AttemptReturned /\ chain[1] = 0) => (fetches = 0 /\ song_id = None)

PerAttemptCallsWitness ==
    /\ AttemptReturned
    /\ Len(chain) >= 2
    /\ chain[1] = 0
    /\ fetches = 0
    /\ song_id = None
    /\ attempt >= 2

\* The stripped line `genre` lies in the catalog between a line start and a
\* line end.
GenreIsStrippedLine ==
    \E a \in 1..Len(catalog), b \in 0..Len(catalog) :
        /\ b >= a - 1
        /\ genre = SubSeq(catalog, a, b)
        /\ (a = 1 \/ catalog[a - 1] = NL)
        /\ (b = Len(catalog) \/ catalog[b + 1] = NL)

\* C6 as stated: the genre returned by _get_genre is never empty and never
\* starts or ends with whitespace.
GenreIsUsableLabel ==
    (genreDraws > 0 /\ pc = "genre")
        => (/\ genre # <<>>
            /\ Head(genre) \notin Whitespace
            /\ genre[Len(genre)] \notin Whitespace)

\* C6 as amended: the genre returned by _get_genre is one line of the
\* catalog without its newline characters: it holds no newline and lies in
\* the catalog between a line start and a line end (a blank line gives the
\* empty string, blanks around a label are kept); and no call changes the
\* catalog.
GenreIsCatalogLine ==
    /\ []((genreDraws > 0 /\ pc = "genre") => (NL \notin Range(genre) /\ GenreIsStrippedLine))
    /\ [][catalog' = catalog]_vars

GenreWitness ==
    /\ genreDraws = 2
    /\ pc = "genre"
    /\ catalog = <<" ", "a", NL>>
    /\ genre = <<" ", "a">>

\* C7: after a failed search or next-page fetch the run is over: the
\* exception has left execute, and no genre draw, search call, next-page
\* fetch or playback call follows.
FailFast ==
    [][failedCall => (/\ pc' = "raised"
                      /\ attempt' = attempt
                      /\ genreDraws' = genreDraws
                      /\ searchCalls' = searchCalls
                      /\ nextCalls' = nextCalls
                      /\ playCalls' = playCalls)]_vars

FailFastWitness ==
    /\ failedCall
    /\ pc = "raised"
    /\ LoopGoesOn(i + 1, retry_count)
    /\ nextCalls > 0
    /\ playCalls = 0

\* C8 as stated: an attempt whose first page has a candidate follows the
\* chain to its last page and returns an entry of the reservoir.
NoCandidateOnlyOnEmptyFirstPage ==
    (AttemptReturned /\ chain[1] > 0)
        => (song_id # None /\ data.offset = Len(chain) /\ song_id \in Range(samples))

\* C8 as amended: an attempt yields no candidate exactly when some page of
\* the chain is empty, and it stops at the first such page; when every page
\* has a candidate it follows the chain to the last page and returns an
\* entry of the reservoir, which holds one entry per page.
NoCandidateIffSomePageEmpty ==
    AttemptReturned =>
        /\ (song_id = None) <=> (\E p \in 1..Len(chain) : chain[p] = 0)
        /\ song_id = None =>
              /\ chain[data.offset] = 0
              /\ \A q \in 1..(data.offset - 1) : chain[q] > 0
        /\ song_id # None =>
              /\ data.offset = Len(chain)
              /\ Len(samples) = Len(chain)
              /\ song_id \in Range(samples)

FullTraversalWitness ==
    /\ AttemptReturned
    /\ Len(chain) >= 2
    /\ \A p \in 1..Len(chain) : chain[p] = MaxItems
    /\ song_id = TrackId(attempt, 1, 1)

\* C9: the reservoir is empty when an attempt starts; after k pages of the
\* attempt were sampled it has k entries, the k-th an item of page k of
\* this attempt; the candidate an attempt returns is an item of a page of
\* that attempt, and the only item of a one-page, one-item result set.
ReservoirInvariant ==
    /\ pc = "page" => Len(samples) = data.offset - 1
    /\ (pc = "page" \/ AttemptReturned) =>
          \A k \in 1..Len(samples) :
              \E idx \in 0..(chain[k] - 1) : samples[k] = TrackId(attempt, k, idx)
    /\ (AttemptReturned /\ song_id # None) =>
          /\ song_id \in Range(samples)
          /\ song_id[1] = attempt
          /\ song_id[2] \in 1..data.offset
          /\ song_id[3] \in 0..(chain[song_id[2]] - 1)
    /\ (AttemptReturned /\ chain = <<1>>) => song_id = TrackId(attempt, 1, 0)

ReservoirWitness ==
    /\ pc = "page"
    /\ attempt >= 2
    /\ returned # {}
    /\ data.offset = 2
    /\ Len(samples) = 1

\* C10: a run in which some attempt returned a track id does not end in
\* the "Unable to find a song!" failure: it reaches playback, with an id
\* one of its attempts returned.
CandidateNeverLost ==
    (pc \in {"failed", "done"} /\ returned # {})
        => (pc = "done" /\ played \in returned)

====
